---- MODULE Spec2Model ----
(***************************************************************************)
(* Model of the automatic pull-request review of src/pr-analyzer.py:       *)
(* review_pr_automatically and the functions it calls (fetch_pr,           *)
(* fetch_pr_changes, merge_pr), with the remote requests they issue.       *)
(*                                                                         *)
(* Python strings are modelled as sequences of pieces (TLA+ strings): a    *)
(* patch is a sequence of one-character pieces, a formatted message is the *)
(* sequence of its literal parts and of the pieces of the values formatted *)
(* into it, and string concatenation is \o.                                *)
(*                                                                         *)
(* Three specifications: Spec is one run from the call of the tool to the  *)
(* returned result; SpecScan is the run from the read of the file list on, *)
(* over more kinds of patch lines; SpecTwo is two runs in one process.     *)
(***************************************************************************)
EXTENDS Integers, Sequences, FiniteSets, TLC

VARIABLES
    pc,            \* position of the run inside review_pr_automatically
    args,          \* the arguments of the call
    pr_raw,        \* fetch_pr_changes: pr_data, the parsed pull-request metadata
    files_raw,     \* fetch_pr_changes: files_data, the parsed file list
    pr_data,       \* review_pr_automatically: pr_data, what fetch_pr returned
    issues_found,  \* review_pr_automatically: issues_found
    review_body,   \* review_pr_automatically: review_body
    result,        \* review_pr_automatically: result, and at "done" the value returned
    calls,         \* the remote requests issued so far by the run, in order
    GITHUB_TOKEN,  \* the module's GITHUB_TOKEN
    suspended      \* the locals of another run that waits for its turn, if any

vars == <<pc, args, pr_raw, files_raw, pr_data, issues_found, review_body, result, calls,
          GITHUB_TOKEN, suspended>>

-----------------------------------------------------------------------------
(* Bounds of the model.                                                    *)

\* files of a pull request, in the orchestration specification Spec
MaxFiles == 2
\* patch lines of a pull request, all files together, in Spec
MaxLines == 2
\* files of a pull request, in the scanning specification SpecScan
ScanMaxFiles == 2
\* patch lines of a pull request, all files together, in SpecScan
ScanMaxLines == 2

-----------------------------------------------------------------------------
(* Python values.                                                          *)

NL == "\n"

\* The Python values True, False and None of a JSON field.
PyTrue == "True"
PyFalse == "False"
PyNone == "None"

\* bool(v) of a JSON boolean or null.
Truthy(v) == v = PyTrue

\* The value None returned in place of a dict.
NoneDict == [none |-> TRUE]

\* The empty dict {}.
EmptyDict == [k \in {} |-> k]

\* d[k] = v on a dict.
Put(d, k, v) == [x \in (DOMAIN d) \cup {k} |-> IF x = k THEN v ELSE d[x]]

\* d.get(k, default)
Get(d, k, default) == IF k \in DOMAIN d THEN d[k] ELSE default

\* s.startswith(p)
StartsWith(s, p) == Len(s) >= Len(p) /\ SubSeq(s, 1, Len(p)) = p

\* needle in s
Contains(s, needle) ==
    \E i \in 1..(Len(s) - Len(needle) + 1) : SubSeq(s, i, i + Len(needle) - 1) = needle

\* s.split('\n')
RECURSIVE SplitLines(_)
SplitLines(s) ==
    IF \A i \in 1..Len(s) : s[i] # NL
    THEN <<s>>
    ELSE LET i == CHOOSE k \in 1..Len(s) : s[k] = NL /\ \A j \in 1..(k - 1) : s[j] # NL
         IN  <<SubSeq(s, 1, i - 1)>> \o SplitLines(SubSeq(s, i + 1, Len(s)))

\* s[1:]
DropFirst(s) == IF s = <<>> THEN <<>> ELSE Tail(s)

\* str(n) of a natural number
Digits == <<"0", "1", "2", "3", "4", "5", "6", "7", "8", "9">>
RECURSIVE ToStr(_)
ToStr(n) == IF n < 10 THEN <<Digits[n + 1]>> ELSE ToStr(n \div 10) \o <<Digits[(n % 10) + 1]>>

\* bool(s) of a string
NonEmpty(s) == \E i \in 1..Len(s) : s[i] # ""

TODO == <<"T", "O", "D", "O">>
FIXME == <<"F", "I", "X", "M", "E">>

-----------------------------------------------------------------------------
(* The scan of review_pr_automatically.                                    *)

\* 'TODO' in content or 'FIXME' in content
IsFlagged(content) == Contains(content, TODO) \/ Contains(content, FIXME)

\* Mutation: removed lines are scanned like added lines.
SkipsUnlessChanged(line) == ~(StartsWith(line, <<"+">>) \/ StartsWith(line, <<"-">>))
\* not line.startswith('+')
IsSkippedLine(line) == ~StartsWith(line, <<"+">>)

\* f"Found TODO/FIXME in {filename} at line with content: {content}"
IssueText(filename, content) ==
    <<"Found TODO/FIXME in ", filename, " at line with content: ">> \o content

\* Mutation: each issue is put in front of the list.
RECURSIVE ScanLinesNewestFirst(_, _, _)
ScanLinesNewestFirst(filename, lines, acc) ==
    IF lines = <<>> THEN acc
    ELSE LET line == Head(lines)
             content == DropFirst(line)
         IN  IF ~IsSkippedLine(line) /\ IsFlagged(content)
             THEN ScanLinesNewestFirst(filename, Tail(lines),
                                       <<IssueText(filename, content)>> \o acc)
             ELSE ScanLinesNewestFirst(filename, Tail(lines), acc)
\* The loop over patch.split('\n') for one file: the issues appended to acc.
RECURSIVE ScanLines(_, _, _)
ScanLines(filename, lines, acc) ==
    IF lines = <<>> THEN acc
    ELSE LET line == Head(lines)
             content == DropFirst(line)
         IN  IF IsSkippedLine(line)
             THEN ScanLines(filename, Tail(lines), acc)
             ELSE IF IsFlagged(content)
                  THEN ScanLines(filename, Tail(lines),
                                 Append(acc, IssueText(filename, content)))
                  ELSE ScanLines(filename, Tail(lines), acc)

\* Mutation: the loop over the files ends at the first file without patch.
RECURSIVE ScanChangesUntilNoPatch(_, _)
ScanChangesUntilNoPatch(changes, acc) ==
    IF changes = <<>> THEN acc
    ELSE LET file_change == Head(changes)
             filename == Get(file_change, "filename", "")
             patch == Get(file_change, "patch", <<>>)
         IN  IF patch = <<>>
             THEN acc
             ELSE ScanChangesUntilNoPatch(Tail(changes),
                                          ScanLines(filename, SplitLines(patch), acc))
\* The loop over pr_data.get('changes', []): the issues appended to acc.
RECURSIVE ScanChanges(_, _)
ScanChanges(changes, acc) ==
    IF changes = <<>> THEN acc
    ELSE LET file_change == Head(changes)
             filename == Get(file_change, "filename", "")
             patch == Get(file_change, "patch", <<>>)
         IN  IF patch = <<>>
             THEN ScanChanges(Tail(changes), acc)
             ELSE ScanChanges(Tail(changes),
                              ScanLines(filename, SplitLines(patch), acc))

-----------------------------------------------------------------------------
(* What the remote end can answer: the inputs of the model.                *)

\* Patch lines of the pull requests of Spec: an added line with TODO, a
\* removed line with TODO, an added line without marker.
MainLines ==
    { <<"+", "T", "O", "D", "O">>,
      <<"-", "T", "O", "D", "O">>,
      <<"+", "o", "k">> }

\* Patch lines of the pull requests of SpecScan: added lines with TODO, with
\* FIXME inside other text and with a leading '+' in the content; a removed
\* line, a context line and a hunk header with a marker; added lines without
\* marker (one in lower case, one cut short); the empty line.
ScanLineSet ==
    { <<"+", "T", "O", "D", "O">>,
      <<"+", "x", "F", "I", "X", "M", "E", "y">>,
      <<"+", "+", "T", "O", "D", "O">>,
      <<"-", "T", "O", "D", "O">>,
      <<" ", "F", "I", "X", "M", "E">>,
      <<"@", "@", " ", "T", "O", "D", "O">>,
      <<"+", "t", "o", "d", "o">>,
      <<"+", "T", "O", "D">>,
      <<>> }

\* The paths of the files of a pull request, by position in the file list.
FileNames == <<"a.py", "b.py", "c.py", "d.py">>

\* '\n'.join(lines)
RECURSIVE JoinLines(_)
JoinLines(lines) ==
    IF Len(lines) = 0 THEN <<>>
    ELSE IF Len(lines) = 1 THEN lines[1]
    ELSE lines[1] \o <<NL>> \o JoinLines(Tail(lines))

\* The "patch" fields a file of k patch lines can have, as the part of the
\* file's JSON object that holds it: no patch key or an empty patch for k = 0.
PatchFields(lineSet, k) ==
    IF k = 0
    THEN {EmptyDict, [patch |-> <<>>]}
    ELSE {[patch |-> JoinLines(ls)] : ls \in [1..k -> lineSet]}

\* The lists of patch fields of at most f files with at most t patch lines.
RECURSIVE PatchLists(_, _, _)
PatchLists(lineSet, f, t) ==
    IF f = 0 THEN {<<>>}
    ELSE LET rests == [r \in 0..t |-> PatchLists(lineSet, f - 1, r)]
             heads == [k \in 0..t |-> PatchFields(lineSet, k)]
         IN  {<<>>} \cup
             UNION { { <<p>> \o rest : p \in heads[k], rest \in rests[t - k] } : k \in 0..t }

\* One element of the JSON array of GET .../pulls/N/files.
FileJson(i, patchField) ==
    [k \in {"filename", "status", "additions", "deletions", "changes",
            "raw_url", "contents_url"} \cup DOMAIN patchField |->
        CASE k = "filename" -> FileNames[i]
          [] k = "status" -> "modified"
          [] k = "additions" -> "1"
          [] k = "deletions" -> "1"
          [] k = "changes" -> "2"
          [] k = "raw_url" -> "raw"
          [] k = "contents_url" -> "contents"
          [] OTHER -> patchField[k]]

\* d without the key k.
Without(d, k) == [x \in (DOMAIN d) \ {k} |-> d[x]]

\* The JSON arrays of GET .../pulls/N/files: well-formed ones, and one whose
\* element lacks the required "filename".
FilesJsons(lineSet, f, t) ==
    { [i \in 1..Len(pl) |-> FileJson(i, pl[i])] : pl \in PatchLists(lineSet, f, t) }
    \cup { << Without(FileJson(1, [patch |-> <<"+", "o", "k">>]), "filename") >> }

MainFilesJsons == FilesJsons(MainLines, MaxFiles, MaxLines)

\* The JSON object of GET .../pulls/N with the given "mergeable" field.
PrJson(mergeableField) ==
    [k \in {"title", "body", "user", "created_at", "updated_at", "state", "head"}
           \cup DOMAIN mergeableField |->
        CASE k = "title" -> <<"Fix parser">>
          [] k = "body" -> <<"Fixes the parser">>
          [] k = "user" -> [login |-> "octocat"]
          [] k = "created_at" -> "2024-01-01"
          [] k = "updated_at" -> "2024-01-02"
          [] k = "state" -> "open"
          [] k = "head" -> [sha |-> "abc123"]
          [] OTHER -> mergeableField[k]]

\* The JSON objects of GET .../pulls/N: mergeable true, false, null or not
\* there, and objects that lack a required field.
PrJsons ==
    { PrJson([mergeable |-> m]) : m \in {PyTrue, PyFalse, PyNone} }
    \cup { PrJson(EmptyDict) }
    \cup { Without(PrJson([mergeable |-> PyTrue]), k) : k \in {"head", "title", "user"} }
    \cup { [PrJson([mergeable |-> PyTrue]) EXCEPT !["head"] = EmptyDict] }

\* What a GET can do: raise in transport, answer with an error status (raised
\* by raise_for_status), or answer 200 with a JSON body.
GetResponses(jsons) ==
    { [kind |-> "exception"], [kind |-> "http_error"] }
    \cup { [kind |-> "ok", json |-> j] : j \in jsons }

-----------------------------------------------------------------------------
(* fetch_pr_changes and fetch_pr.                                          *)

\* The keys fetch_pr_changes reads with file[...] and pr_data[...].
RequiredFileKeys == {"filename", "status", "additions", "deletions", "changes"}
RequiredPrKeys == {"title", "body", "user", "created_at", "updated_at", "state", "head"}

\* The dict built for one file of files_data.
Change(file) ==
    [filename |-> file["filename"],
     status |-> file["status"],
     additions |-> file["additions"],
     deletions |-> file["deletions"],
     changes |-> file["changes"],
     patch |-> Get(file, "patch", <<>>),
     raw_url |-> Get(file, "raw_url", ""),
     contents_url |-> Get(file, "contents_url", "")]

\* pr_data.get('mergeable', False)
MergeableOf(d) == Get(d, "mergeable", PyFalse)

\* Whether building pr_info raises KeyError.
BuildRaises(pr_json, files_json) ==
    \/ \E i \in 1..Len(files_json) : ~(RequiredFileKeys \subseteq DOMAIN files_json[i])
    \/ ~(RequiredPrKeys \subseteq DOMAIN pr_json)
    \/ "login" \notin DOMAIN pr_json["user"]
    \/ "sha" \notin DOMAIN pr_json["head"]

\* Mutation: a field that is not there is read as empty, and pr_info is built
\* from what there is.
BuildPrInfoLenient(pr_json, files_json) ==
    LET changes == [i \in 1..Len(files_json) |->
                       [filename |-> Get(files_json[i], "filename", ""),
                        patch |-> Get(files_json[i], "patch", <<>>)]]
    IN  [title |-> Get(pr_json, "title", <<>>),
         author |-> Get(Get(pr_json, "user", EmptyDict), "login", ""),
         total_changes |-> Len(changes),
         changes |-> changes,
         head_sha |-> Get(Get(pr_json, "head", EmptyDict), "sha", ""),
         mergeable |-> MergeableOf(pr_json)]
\* What fetch_pr_changes returns once both reads have answered 200: pr_info,
\* or None when building it raised.
BuildPrInfo(pr_json, files_json) ==
    IF BuildRaises(pr_json, files_json)
    THEN NoneDict
    ELSE LET changes == [i \in 1..Len(files_json) |-> Change(files_json[i])]
         IN  [title |-> pr_json["title"],
              description |-> pr_json["body"],
              author |-> pr_json["user"]["login"],
              created_at |-> pr_json["created_at"],
              updated_at |-> pr_json["updated_at"],
              state |-> pr_json["state"],
              total_changes |-> Len(changes),
              changes |-> changes,
              head_sha |-> pr_json["head"]["sha"],
              mergeable |-> MergeableOf(pr_json)]

\* What fetch_pr returns for what fetch_pr_changes returned.
FetchPr(pr_info) == IF pr_info = NoneDict THEN EmptyDict ELSE pr_info

\* headers = {'Authorization': f'token {GITHUB_TOKEN}'}
Authorization == <<"token ", GITHUB_TOKEN>>

\* The requests of the run, each with what the remote end did with it.
GetPrCall(a, resp) ==
    [method |-> "GET", endpoint |-> "pulls/N", pr_number |-> a.pr_number,
     authorization |-> Authorization, answer |-> resp.kind]
GetFilesCall(a, resp) ==
    [method |-> "GET", endpoint |-> "pulls/N/files", pr_number |-> a.pr_number,
     authorization |-> Authorization, answer |-> resp.kind]

-----------------------------------------------------------------------------
(* review_pr_automatically.                                                *)

PrNumbers == {7, 12}
MergeMethods == {"merge", "squash", "rebase", "fast-forward"}

\* The result returned when fetch_pr gave nothing.
FetchErrorResult == [status |-> "error", message |-> <<"Failed to fetch PR data">>]

\* GITHUB_TOKEN = os.getenv('GITHUB_TOKEN')
EnvToken == "ghp_0123"

Init ==
    /\ GITHUB_TOKEN = EnvToken
    /\ suspended = EmptyDict
    /\ pc = "idle"
    /\ args = EmptyDict
    /\ pr_raw = EmptyDict
    /\ files_raw = <<>>
    /\ pr_data = EmptyDict
    /\ issues_found = <<>>
    /\ review_body = <<>>
    /\ result = EmptyDict
    /\ calls = <<>>

\* The tool is called.
InvokeWith(arguments) ==
    /\ pc = "idle"
    /\ \E a \in arguments : args' = a
    /\ pc' = "get_pr"
    /\ UNCHANGED <<pr_raw, files_raw, pr_data, issues_found, review_body, result, calls,
                 GITHUB_TOKEN, suspended>>

Arguments ==
    { [pr_number |-> n, auto_merge |-> a, merge_method |-> m] :
         n \in PrNumbers, a \in BOOLEAN, m \in MergeMethods }

Invoke == InvokeWith(Arguments)

\* Mutation: the run goes on with whatever fetch_pr returned.
ProceedsAlways(d) ==
    /\ pr_data' = d
    /\ pc' = "scan"
    /\ UNCHANGED result
\* Mutation: a failed fetch leaves the run as an exception, with no result.
FetchFailurePropagates(d) ==
    /\ pr_data' = d
    /\ pc' = IF DOMAIN d = {} THEN "raised" ELSE "scan"
    /\ UNCHANGED result
\* Mutation: after a failed fetch the run fetches once more.
AfterFetchRetries(d) ==
    /\ pr_data' = d
    /\ IF DOMAIN d = {}
       THEN IF Len(calls) < 2
            THEN /\ pc' = "get_pr"
                 /\ UNCHANGED result
            ELSE /\ result' = FetchErrorResult
                 /\ pc' = "done"
       ELSE /\ pc' = "scan"
            /\ UNCHANGED result
\* fetch_pr has returned d: the check of "if not pr_data".
AfterFetch(d) ==
    /\ pr_data' = d
    /\ IF DOMAIN d = {}
       THEN /\ result' = FetchErrorResult
            /\ pc' = "done"
       ELSE /\ pc' = "scan"
            /\ UNCHANGED result

\* fetch_pr_changes: the read of the pull-request metadata.
GetPrFrom(jsons) ==
    /\ pc = "get_pr"
    /\ \E resp \in GetResponses(jsons) :
          /\ calls' = Append(calls, GetPrCall(args, resp))
          /\ IF resp.kind = "ok"
             THEN /\ pr_raw' = resp.json
                  /\ pc' = "get_files"
                  /\ UNCHANGED <<pr_data, result>>
             ELSE /\ AfterFetch(FetchPr(NoneDict))
                  /\ UNCHANGED pr_raw
    /\ UNCHANGED <<args, files_raw, issues_found, review_body,
                 GITHUB_TOKEN, suspended>>

GetPr == GetPrFrom(PrJsons)

\* fetch_pr_changes: the read of the file list, and the rest of the function.
GetFilesFrom(jsons) ==
    /\ pc = "get_files"
    /\ \E resp \in GetResponses(jsons) :
          /\ calls' = Append(calls, GetFilesCall(args, resp))
          /\ IF resp.kind = "ok"
             THEN /\ files_raw' = resp.json
                  /\ AfterFetch(FetchPr(BuildPrInfo(pr_raw, resp.json)))
             ELSE /\ AfterFetch(FetchPr(NoneDict))
                  /\ UNCHANGED files_raw
    /\ UNCHANGED <<args, pr_raw, issues_found, review_body,
                 GITHUB_TOKEN, suspended>>

GetFiles == GetFilesFrom(MainFilesJsons)

\* The scan of every file of the snapshot.
Scan ==
    /\ pc = "scan"
    /\ issues_found' = ScanChanges(Get(pr_data, "changes", <<>>), <<>>)
    /\ pc' = "decide"
    /\ UNCHANGED <<args, pr_raw, files_raw, pr_data, review_body, result, calls,
                 GITHUB_TOKEN, suspended>>

\* The bullets added to review_body, one for each issue.
RECURSIVE Bullets(_)
Bullets(issues) ==
    IF issues = <<>> THEN <<>>
    ELSE <<"- ">> \o Head(issues) \o <<NL>> \o Bullets(Tail(issues))

BodyHeader == <<"## Automated Review Results\n\n">>
BodyIssuesIntro == <<"Some issues were found during the automated review:\n\n">>
BodyNoIssues == <<"No issues found! This PR looks good to merge.">>

\* Mutation: the issues are not looked at.
NeverHasIssues(issues) == FALSE
\* if issues_found
HasIssues(issues) == issues # <<>>

\* Mutation: the merge is evaluated after either verdict.
AfterDecideAlwaysMerge(issues) == "merge_eval"
\* Where the run goes after the verdict: the merge is evaluated in the
\* else branch only.
AfterDecide(issues) == IF HasIssues(issues) THEN "return" ELSE "merge_eval"

\* The review body and the verdict.
Decide ==
    /\ pc = "decide"
    /\ IF HasIssues(issues_found)
       THEN /\ review_body' = BodyHeader \o BodyIssuesIntro \o Bullets(issues_found)
            /\ result' = [status |-> "success",
                          issues_found |-> issues_found,
                          approval_status |-> "changes_requested",
                          merged |-> FALSE,
                          message |-> <<"Changes requested, PR not approved">>]
       ELSE /\ review_body' = BodyHeader \o BodyNoIssues
            /\ result' = [status |-> "success",
                          issues_found |-> issues_found,
                          approval_status |-> "approved"]
    /\ pc' = AfterDecide(issues_found)
    /\ UNCHANGED <<args, pr_raw, files_raw, pr_data, issues_found, calls,
                 GITHUB_TOKEN, suspended>>

-----------------------------------------------------------------------------
(* merge_pr.                                                               *)

\* What the PUT .../merge can do: raise in transport, or answer with a status
\* and a body that is a JSON object or is not JSON.
MergeResponses ==
    { [kind |-> "exception", text |-> <<"Connection reset by peer">>] }
    \cup { [kind |-> "answer", status_code |-> 200, body |-> b] :
              b \in { [parsed |-> [message |-> <<"Merged by the API">>, sha |-> <<"def456">>]],
                      [parsed |-> EmptyDict],
                      EmptyDict } }
    \cup { [kind |-> "answer", status_code |-> 405, body |-> b] :
              b \in { [parsed |-> [message |-> <<"Base branch was modified">>]],
                      [parsed |-> EmptyDict],
                      EmptyDict } }

\* Mutation: the method is left out of the request.
MergeDataNoMethod(commit_title, commit_message, merge_method) ==
    [commit_title |-> commit_title, commit_message |-> commit_message]
\* Mutation: the method is put into the request whatever its value.
MergeDataAnyMethod(commit_title, commit_message, merge_method) ==
    [commit_title |-> commit_title, commit_message |-> commit_message,
     merge_method |-> merge_method]
\* The JSON body of the merge request.
MergeData(commit_title, commit_message, merge_method) ==
    LET d1 == IF NonEmpty(commit_title)
              THEN Put(EmptyDict, "commit_title", commit_title) ELSE EmptyDict
        d2 == IF NonEmpty(commit_message)
              THEN Put(d1, "commit_message", commit_message) ELSE d1
    IN  IF merge_method \in {"merge", "squash", "rebase"}
        THEN Put(d2, "merge_method", merge_method) ELSE d2

\* Mutation: any answer with a JSON body counts as merged, whatever its status.
MergeReturnAnyStatus(resp) ==
    IF resp.kind = "exception"
    THEN [status |-> "error",
          message |-> <<"Exception merging PR: ">> \o resp.text,
          merged |-> FALSE]
    ELSE IF "parsed" \notin DOMAIN resp.body
    THEN [status |-> "error",
          message |-> <<"Exception merging PR: ", "Expecting value">>,
          merged |-> FALSE]
    ELSE [status |-> "success",
          message |-> Get(resp.body.parsed, "message", <<"Pull Request successfully merged">>),
          sha |-> Get(resp.body.parsed, "sha", <<>>),
          merged |-> TRUE]
\* What merge_pr returns for what the PUT did.
MergeReturn(resp) ==
    IF resp.kind = "exception"
    THEN [status |-> "error",
          message |-> <<"Exception merging PR: ">> \o resp.text,
          merged |-> FALSE]
    ELSE IF "parsed" \notin DOMAIN resp.body
    THEN [status |-> "error",
          message |-> <<"Exception merging PR: ", "Expecting value">>,
          merged |-> FALSE]
    ELSE IF resp.status_code = 200
    THEN [status |-> "success",
          message |-> Get(resp.body.parsed, "message", <<"Pull Request successfully merged">>),
          sha |-> Get(resp.body.parsed, "sha", <<>>),
          merged |-> TRUE]
    ELSE [status |-> "error",
          message |-> Get(resp.body.parsed, "message", <<"Unknown error">>),
          merged |-> FALSE]

MergeCall(a, data, resp) ==
    [method |-> "PUT", endpoint |-> "pulls/N/merge", pr_number |-> a.pr_number,
     authorization |-> Authorization, data |-> data, answer |-> resp]

-----------------------------------------------------------------------------
(* create_review. review_pr_automatically does not call it: no action of   *)
(* the run sends this request.                                             *)

\* The JSON body of the review request.
CreateReviewData(commit_id, comments, body, event) ==
    LET data == [commit_id |-> commit_id, body |-> body, event |-> event]
    IN  IF comments # <<>> THEN Put(data, "comments", comments) ELSE data

CreateReviewCall(a, data, resp) ==
    [method |-> "POST", endpoint |-> "pulls/N/reviews", pr_number |-> a.pr_number,
     authorization |-> Authorization, data |-> data, answer |-> resp]

-----------------------------------------------------------------------------
(* review_pr_automatically: the merge.                                     *)

\* Mutation: auto_merge is not looked at.
AutoMergeAlways(a) == TRUE
\* if auto_merge
AutoMergeOn(a) == a.auto_merge

\* Mutation: only an explicit false counts as not mergeable.
MergeableUnlessFalse(d) == Get(d, "mergeable", PyFalse) # PyFalse
\* if pr_data.get('mergeable', False)
IsMergeable(d) == Truthy(Get(d, "mergeable", PyFalse))

\* f"Merge PR #{pr_number}: {pr_data.get('title', '')}"
CommitTitle(a, d) == <<"Merge PR #">> \o ToStr(a.pr_number) \o <<": ">> \o Get(d, "title", <<>>)
CommitMessage == <<"Automatically merged after passing automated review.">>

\* Mutation: a failed merge turns the result into an error result.
WithMergeResultFatal(res, merge_result) ==
    IF Get(merge_result, "merged", FALSE)
    THEN Put(Put(Put(res, "merged", TRUE), "merge_message", merge_result.message),
             "message", <<"PR approved and merged: ">> \o merge_result.message)
    ELSE [status |-> "error",
          message |-> <<"Error in automatic review: ">> \o Get(merge_result, "message", <<>>)]
\* The result after merge_pr returned merge_result.
WithMergeResult(res, merge_result) ==
    LET merged == Get(merge_result, "merged", FALSE)
        merge_message == Get(merge_result, "message", <<>>)
        r1 == Put(Put(res, "merged", merged), "merge_message", merge_message)
    IN  IF merged
        THEN Put(r1, "message", <<"PR approved and merged: ">> \o merge_message)
        ELSE Put(r1, "message", <<"PR approved but merge failed: ">> \o merge_message)

\* auto_merge is set and the pull request is mergeable: merge_pr is called.
MergeAttemptFrom(responses) ==
    /\ pc = "merge_eval"
    /\ AutoMergeOn(args)
    /\ IsMergeable(pr_data)
    /\ \E resp \in responses :
          /\ calls' = Append(calls, MergeCall(args,
                          MergeData(CommitTitle(args, pr_data), CommitMessage, args.merge_method),
                          resp))
          /\ result' = WithMergeResult(result, MergeReturn(resp))
    /\ pc' = "return"
    /\ UNCHANGED <<args, pr_raw, files_raw, pr_data, issues_found, review_body,
                 GITHUB_TOKEN, suspended>>

MergeAttempt == MergeAttemptFrom(MergeResponses)

\* auto_merge is set and the pull request is not mergeable.
NotMergeable ==
    /\ pc = "merge_eval"
    /\ AutoMergeOn(args)
    /\ ~IsMergeable(pr_data)
    /\ result' = Put(Put(result, "merged", FALSE),
                     "message", <<"PR approved but not mergeable. Check for conflicts.">>)
    /\ pc' = "return"
    /\ UNCHANGED <<args, pr_raw, files_raw, pr_data, issues_found, review_body, calls,
                 GITHUB_TOKEN, suspended>>

\* auto_merge is not set.
MergeDisabled ==
    /\ pc = "merge_eval"
    /\ ~AutoMergeOn(args)
    /\ result' = Put(Put(result, "merged", FALSE),
                     "message", <<"PR approved, but automatic merge is disabled">>)
    /\ pc' = "return"
    /\ UNCHANGED <<args, pr_raw, files_raw, pr_data, issues_found, review_body, calls,
                 GITHUB_TOKEN, suspended>>

\* Mutation: the result is returned without the review body.
ReturnWithoutBody ==
    /\ pc = "return"
    /\ pc' = "done"
    /\ UNCHANGED <<args, pr_raw, files_raw, pr_data, issues_found, review_body, result, calls,
                 GITHUB_TOKEN, suspended>>
\* result["review_body"] = review_body; return result
Return ==
    /\ pc = "return"
    /\ result' = Put(result, "review_body", review_body)
    /\ pc' = "done"
    /\ UNCHANGED <<args, pr_raw, files_raw, pr_data, issues_found, review_body, calls,
                 GITHUB_TOKEN, suspended>>

Next ==
    \/ Invoke
    \/ GetPr
    \/ GetFiles
    \/ Scan
    \/ Decide
    \/ MergeAttempt
    \/ NotMergeable
    \/ MergeDisabled
    \/ Return

Spec == Init /\ [][Next]_vars

-----------------------------------------------------------------------------
(* The scanning specification: the run from the read of the file list on,  *)
(* over pull requests with more kinds of patch lines, auto_merge not set.  *)

ScanFilesJsons == FilesJsons(ScanLineSet, ScanMaxFiles, ScanMaxLines)

InitScan ==
    /\ GITHUB_TOKEN = EnvToken
    /\ suspended = EmptyDict
    /\ pc = "get_files"
    /\ args = [pr_number |-> 7, auto_merge |-> FALSE, merge_method |-> "merge"]
    /\ pr_raw = PrJson([mergeable |-> PyTrue])
    /\ files_raw = <<>>
    /\ pr_data = EmptyDict
    /\ issues_found = <<>>
    /\ review_body = <<>>
    /\ result = EmptyDict
    /\ calls = <<GetPrCall(args, [kind |-> "ok"])>>

GetFilesScan == GetFilesFrom(ScanFilesJsons)

NextScan ==
    \/ GetFilesScan
    \/ Scan
    \/ Decide
    \/ MergeDisabled
    \/ Return

SpecScan == InitScan /\ [][NextScan]_vars

-----------------------------------------------------------------------------
(* The specification of two runs: two calls of the tool served by the same *)
(* process. One run is the running one, the other one waits with its       *)
(* locals; the turn can pass from one to the other between any two steps.  *)

\* The locals of the running call of review_pr_automatically and of the
\* functions it calls.
Locals ==
    [pc |-> pc, args |-> args, pr_raw |-> pr_raw, files_raw |-> files_raw,
     pr_data |-> pr_data, issues_found |-> issues_found, review_body |-> review_body,
     result |-> result, calls |-> calls]

\* The locals of a call that has not started.
FreshLocals ==
    [pc |-> "idle", args |-> EmptyDict, pr_raw |-> EmptyDict, files_raw |-> <<>>,
     pr_data |-> EmptyDict, issues_found |-> <<>>, review_body |-> <<>>,
     result |-> EmptyDict, calls |-> <<>>]

\* Mutation: issues_found is one list of the module, which a run that gets the
\* turn finds as the other run left it.
IssuesSharedOnResume(own, left) == left
\* issues_found is created inside the call (issues_found = []): a run that
\* gets the turn finds its own list, not what the other run left in its own.
IssuesOnResume(own, left) == own

\* The turn passes to the other run.
Switch ==
    /\ DOMAIN suspended # {}
    /\ suspended' = Locals
    /\ pc' = suspended.pc
    /\ args' = suspended.args
    /\ pr_raw' = suspended.pr_raw
    /\ files_raw' = suspended.files_raw
    /\ pr_data' = suspended.pr_data
    /\ issues_found' = IssuesOnResume(suspended.issues_found, issues_found)
    /\ review_body' = suspended.review_body
    /\ result' = suspended.result
    /\ calls' = suspended.calls
    /\ UNCHANGED GITHUB_TOKEN

\* The calls, the pull requests and the answers of the two runs.
TwoArguments ==
    { [pr_number |-> 7, auto_merge |-> TRUE, merge_method |-> "squash"],
      [pr_number |-> 12, auto_merge |-> FALSE, merge_method |-> "merge"] }
TwoPrJsons == { PrJson([mergeable |-> m]) : m \in {PyTrue, PyFalse} }
TwoFilesJsons ==
    { << FileJson(1, [patch |-> <<"+", "T", "O", "D", "O">>]) >>,
      << FileJson(1, [patch |-> <<"+", "o", "k">>]) >> }
TwoMergeResponses ==
    { r \in MergeResponses :
         /\ r.kind = "answer"
         /\ "parsed" \in DOMAIN r.body
         /\ "message" \in DOMAIN r.body.parsed }

InitTwo ==
    /\ GITHUB_TOKEN = EnvToken
    /\ suspended = FreshLocals
    /\ pc = "idle"
    /\ args = EmptyDict
    /\ pr_raw = EmptyDict
    /\ files_raw = <<>>
    /\ pr_data = EmptyDict
    /\ issues_found = <<>>
    /\ review_body = <<>>
    /\ result = EmptyDict
    /\ calls = <<>>

InvokeTwo == InvokeWith(TwoArguments)
GetPrTwo == GetPrFrom(TwoPrJsons)
GetFilesTwo == GetFilesFrom(TwoFilesJsons)
MergeAttemptTwo == MergeAttemptFrom(TwoMergeResponses)

NextTwo ==
    \/ InvokeTwo
    \/ GetPrTwo
    \/ GetFilesTwo
    \/ Scan
    \/ Decide
    \/ MergeAttemptTwo
    \/ NotMergeable
    \/ MergeDisabled
    \/ Return
    \/ Switch

SpecTwo == InitTwo /\ [][NextTwo]_vars

-----------------------------------------------------------------------------
(* Properties.                                                             *)

\* The requests of the run to the merge endpoint and to the review endpoint.
MergeCalls == SelectSeq(calls, LAMBDA c : c.endpoint = "pulls/N/merge")
ReviewCalls == SelectSeq(calls, LAMBDA c : c.endpoint = "pulls/N/reviews")

\* The run is past the fetch.
PastFetch == pc \in {"scan", "decide", "merge_eval", "return", "done"}
\* fetch_pr returned the empty mapping; fetch_pr returned a snapshot.
FetchFailed == PastFetch /\ DOMAIN pr_data = {}
FetchSucceeded == PastFetch /\ DOMAIN pr_data # {}
\* The run has returned a result that carries a verdict.
Returned == pc = "done"
HasVerdict(v) == "approval_status" \in DOMAIN result /\ result["approval_status"] = v

\* C1: when the fetch fails, the run returns at once a result with status
\* "error" and a non-empty message, and has sent no request to the review
\* endpoint or to the merge endpoint.
C1_FetchFailureIsError ==
    FetchFailed =>
        /\ pc = "done"
        /\ DOMAIN result = {"status", "message"}
        /\ result["status"] = "error"
        /\ NonEmpty(result["message"])
        /\ Len(MergeCalls) = 0
        /\ Len(ReviewCalls) = 0
        /\ issues_found = <<>>

\* C1: a run has returned after the read of the file list failed.
C1_Witness ==
    /\ pc = "done"
    /\ FetchFailed
    /\ Len(calls) = 2
    /\ calls[2].answer = "http_error"

\* C2: a run with at least one finding, whose verdict is changes_requested,
\* sends no merge request and returns merged = false, whatever auto_merge,
\* the mergeable flag and merge_method are.
C2_ChangesRequestedNeverMerges ==
    /\ issues_found # <<>> => Len(MergeCalls) = 0
    /\ HasVerdict("changes_requested") =>
          /\ Len(MergeCalls) = 0
          /\ result["merged"] = FALSE

\* C2: a run with auto_merge set on a mergeable pull request has returned
\* changes_requested.
C2_Witness ==
    /\ Returned
    /\ HasVerdict("changes_requested")
    /\ args.auto_merge
    /\ pr_data["mergeable"] = PyTrue

\* The submission verb of a verdict.
VerbOf(v) == IF v = "approved" THEN "APPROVE" ELSE "REQUEST_CHANGES"

\* C3: a run whose fetch succeeded has, when it returns, sent exactly one
\* review request, with the head commit id, the review body and the verb of
\* the verdict, and sent it before any merge request.
C3_ExactlyOneReviewSubmitted ==
    (Returned /\ FetchSucceeded) =>
        /\ Len(ReviewCalls) = 1
        /\ ReviewCalls[1].data =
              CreateReviewData(pr_data["head_sha"], <<>>, result["review_body"],
                               VerbOf(result["approval_status"]))
        /\ \A i, j \in 1..Len(calls) :
              (calls[i].endpoint = "pulls/N/reviews" /\ calls[j].endpoint = "pulls/N/merge")
                  => i < j

-----------------------------------------------------------------------------
(* What the scan is to find, stated on the patch text: a line starts at     *)
(* position 1 and after every newline, and runs up to the next newline.    *)

LineStarts(p) == {i \in 1..Len(p) : i = 1 \/ p[i - 1] = NL}

\* The position after the last character of the line that starts at i.
LineEnd(p, i) ==
    CHOOSE e \in i..(Len(p) + 1) :
        /\ e = Len(p) + 1 \/ p[e] = NL
        /\ \A k \in i..(e - 1) : p[k] # NL

\* The marker m stands at positions j.. of p, before position e.
MarkerAt(p, j, e, m) ==
    /\ j + Len(m) <= e
    /\ \A k \in 1..Len(m) : p[j + k - 1] = m[k]

\* The line that starts at i is an added line whose content holds a marker.
AddedFlaggedAt(p, i) ==
    /\ p[i] = "+"
    /\ \E j \in (i + 1)..(LineEnd(p, i) - 1) :
          MarkerAt(p, j, LineEnd(p, i), TODO) \/ MarkerAt(p, j, LineEnd(p, i), FIXME)

FlaggedStarts(p) == {i \in LineStarts(p) : AddedFlaggedAt(p, i)}

\* The line that starts at i, without its first character.
ContentAt(p, i) == [k \in 1..(LineEnd(p, i) - i - 1) |-> p[i + k]]

\* No file of the snapshot has a flagged added line.
NoFlaggedLine(changes) == \A f \in 1..Len(changes) : FlaggedStarts(changes[f].patch) = {}

\* The decimal text of the pull-request numbers of the model.
DecimalOf(n) == CASE n = 7 -> <<"7">> [] n = 12 -> <<"1", "2">>

\* The merge endpoint answered 200 with a JSON object.
MergeSucceeded(c) ==
    /\ c.answer.kind = "answer"
    /\ c.answer.status_code = 200
    /\ "parsed" \in DOMAIN c.answer.body

\* C4: with no flagged added line, auto_merge set and mergeable true, the run
\* returns approved, has sent exactly one merge request, with the requested
\* method when it is merge, squash or rebase, the title made of the number and
\* title of the pull request and the fixed message, and returns merged = true
\* when the endpoint answered with success.
C4_ApprovedMergeableIsMerged ==
    (/\ Returned /\ FetchSucceeded
     /\ NoFlaggedLine(pr_data["changes"])
     /\ args.auto_merge
     /\ Get(pr_raw, "mergeable", PyNone) = PyTrue) =>
        /\ result["status"] = "success"
        /\ result["approval_status"] = "approved"
        /\ Len(MergeCalls) = 1
        /\ LET c == MergeCalls[1]
           IN  /\ args.merge_method \in {"merge", "squash", "rebase"} =>
                     /\ "merge_method" \in DOMAIN c.data
                     /\ c.data["merge_method"] = args.merge_method
               /\ c.data["commit_title"] =
                     <<"Merge PR #">> \o DecimalOf(args.pr_number) \o <<": ">> \o pr_raw["title"]
               /\ c.data["commit_message"] =
                     <<"Automatically merged after passing automated review.">>
               /\ c.pr_number = args.pr_number
               /\ MergeSucceeded(c) => result["merged"] = TRUE

\* C4: a run asked to squash has merged.
C4_Witness ==
    /\ Returned
    /\ Len(MergeCalls) = 1
    /\ MergeSucceeded(MergeCalls[1])
    /\ args.merge_method = "squash"
    /\ args.pr_number = 12
    /\ Len(pr_data["changes"]) = 2
    /\ result["merged"] = TRUE

\* C5: with verdict approved, auto_merge set and a mergeable flag that is
\* false, null or not in the fetched data, the run returns status "success",
\* merged = false and the "not mergeable" message, and has sent no merge
\* request.
C5_NotMergeableIsNotMerged ==
    (/\ Returned /\ FetchSucceeded
     /\ HasVerdict("approved")
     /\ args.auto_merge
     /\ Get(pr_raw, "mergeable", PyNone) \in {PyFalse, PyNone}) =>
        /\ result["status"] = "success"
        /\ result["merged"] = FALSE
        /\ result["message"] = <<"PR approved but not mergeable. Check for conflicts.">>
        /\ Len(MergeCalls) = 0

\* C5: such a run has returned, for a null flag.
C5_Witness ==
    /\ Returned /\ FetchSucceeded
    /\ HasVerdict("approved")
    /\ args.auto_merge
    /\ "mergeable" \in DOMAIN pr_raw
    /\ pr_raw["mergeable"] = PyNone

\* C6: with verdict approved and auto_merge not set, the run has sent no merge
\* request, whatever the mergeable flag is, and returns approved, merged =
\* false and the message that the automatic merge is disabled.
C6_AutoMergeOffIsNotMerged ==
    (/\ Returned /\ FetchSucceeded
     /\ HasVerdict("approved") \/ NoFlaggedLine(pr_data["changes"])
     /\ ~args.auto_merge) =>
        /\ Len(MergeCalls) = 0
        /\ result["approval_status"] = "approved"
        /\ result["merged"] = FALSE
        /\ result["message"] = <<"PR approved, but automatic merge is disabled">>

\* C6: such a run has returned, on a mergeable pull request.
C6_Witness ==
    /\ Returned /\ FetchSucceeded
    /\ HasVerdict("approved")
    /\ ~args.auto_merge
    /\ pr_data["mergeable"] = PyTrue

\* C7: the result of a run whose fetch succeeded carries exactly one of the
\* two verdicts: changes_requested if and only if its issues_found is not
\* empty, approved if and only if it is empty.
C7_VerdictIffFindings ==
    (Returned /\ FetchSucceeded) =>
        /\ {"approval_status", "issues_found"} \subseteq DOMAIN result
        /\ result["approval_status"] \in {"approved", "changes_requested"}
        /\ result["approval_status"] = "changes_requested" <=> result["issues_found"] # <<>>
        /\ result["approval_status"] = "approved" <=> result["issues_found"] = <<>>

\* C7: a run has returned changes_requested with two findings.
C7_Witness ==
    /\ Returned /\ FetchSucceeded
    /\ HasVerdict("changes_requested")
    /\ Len(result["issues_found"]) = 2

-----------------------------------------------------------------------------
(* The findings, stated on the patch text.                                 *)

\* The flagged added lines of the snapshot: <<file, start of the line>>.
FlagPoints(changes) ==
    UNION { { <<f, i>> : i \in FlaggedStarts(changes[f].patch) } : f \in 1..Len(changes) }

\* File order, then line order within the file.
Before(q, r) == q[1] < r[1] \/ (q[1] = r[1] /\ q[2] < r[2])
RankOf(points, q) == Cardinality({r \in points : Before(r, q)}) + 1

\* issues holds one finding for each flagged added line, in order, each with
\* the path of the file and the content of the line.
IssuesAsClaimed(changes, issues) ==
    LET points == FlagPoints(changes)
    IN  /\ Len(issues) = Cardinality(points)
        /\ \A q \in points :
              issues[RankOf(points, q)] =
                  <<"Found TODO/FIXME in ", changes[q[1]].filename,
                    " at line with content: ">> \o ContentAt(changes[q[1]].patch, q[2])

\* The bullets of the first n issues.
RECURSIVE BulletText(_, _)
BulletText(issues, n) ==
    IF n = 0 THEN <<>>
    ELSE BulletText(issues, n - 1) \o <<"- ">> \o issues[n] \o <<"\n">>

PastScan == pc \in {"decide", "merge_eval", "return", "done"}

\* C8: issues_found is the sequence, in file order and then line order, of
\* one finding for each added line whose content holds TODO or FIXME, each
\* with the file's path and the content; the returned result carries it, and
\* the changes_requested review body lists one bullet for each, in that order.
C8_FindingsInOrder ==
    (FetchSucceeded /\ PastScan) =>
        /\ IssuesAsClaimed(pr_data["changes"], issues_found)
        /\ Returned =>
              /\ result["issues_found"] = issues_found
              /\ issues_found # <<>> =>
                    result["review_body"] =
                        BodyHeader \o BodyIssuesIntro
                        \o BulletText(issues_found, Len(issues_found))

\* C8: a run has returned two findings of one file, the second one a FIXME
\* inside other text.
C8_Witness ==
    /\ Returned /\ FetchSucceeded
    /\ Len(issues_found) = 2
    /\ Len(pr_data["changes"]) = 2
    /\ issues_found[1] = <<"Found TODO/FIXME in ", "b.py", " at line with content: ",
                           "T", "O", "D", "O">>
    /\ issues_found[2] = <<"Found TODO/FIXME in ", "b.py", " at line with content: ",
                           "x", "F", "I", "X", "M", "E", "y">>

\* C9: a file whose patch has no added line with TODO or FIXME in its content
\* gets no finding, also when its removed lines, context lines or hunk headers
\* hold TODO or FIXME.
C9_OnlyAddedLinesFlagged ==
    (FetchSucceeded /\ PastScan) =>
        \A f \in 1..Len(pr_data["changes"]) :
            FlaggedStarts(pr_data["changes"][f].patch) = {} =>
                \A k \in 1..Len(issues_found) :
                    issues_found[k][2] # pr_data["changes"][f].filename

\* C9: the scan of a patch of a removed line with TODO and a hunk header with
\* TODO has found nothing.
C9_Witness ==
    /\ FetchSucceeded /\ PastScan
    /\ Len(pr_data["changes"]) = 1
    /\ pr_data["changes"][1].patch =
          <<"@", "@", " ", "T", "O", "D", "O", "\n", "-", "T", "O", "D", "O">>
    /\ issues_found = <<>>

\* The merge request failed: an exception in transport, or an answer whose
\* status is not 200.
MergeFailed(c) ==
    \/ c.answer.kind = "exception"
    \/ c.answer.kind = "answer" /\ c.answer.status_code # 200

\* C10: when the merge request of an approved, mergeable pull request fails,
\* the run returns status "success", approved, merged = false and the message
\* "PR approved but merge failed: " followed by the failure message of the
\* merge.
C10_MergeFailureIsNotFatal ==
    (Returned /\ Len(MergeCalls) = 1 /\ MergeFailed(MergeCalls[1])) =>
        /\ DOMAIN result = {"status", "issues_found", "approval_status", "merged",
                            "merge_message", "message", "review_body"}
        /\ result["status"] = "success"
        /\ result["approval_status"] = "approved"
        /\ result["merged"] = FALSE
        /\ result["message"] = <<"PR approved but merge failed: ">> \o result["merge_message"]
        /\ LET a == MergeCalls[1].answer
           IN  /\ a.kind = "exception" =>
                     result["merge_message"] = <<"Exception merging PR: ">> \o a.text
               /\ (a.kind = "answer" /\ "parsed" \in DOMAIN a.body
                      /\ "message" \in DOMAIN a.body.parsed) =>
                     result["merge_message"] = a.body.parsed["message"]
               /\ (a.kind = "answer" /\ "parsed" \in DOMAIN a.body
                      /\ "message" \notin DOMAIN a.body.parsed) =>
                     result["merge_message"] = <<"Unknown error">>

\* C10: a run has returned after the merge endpoint answered 405.
C10_Witness ==
    /\ Returned
    /\ Len(MergeCalls) = 1
    /\ MergeCalls[1].answer.kind = "answer"
    /\ MergeCalls[1].answer.status_code = 405
    /\ result["message"] = <<"PR approved but merge failed: ", "Base branch was modified">>

\* The positions of a run that has not returned: at each of them a statement
\* of review_pr_automatically or of a function it calls comes next.
BeforeReturn == {"idle", "get_pr", "get_files", "scan", "decide", "merge_eval", "return"}

\* C11: a run ends in one of two ways only, with a result of status "success"
\* or with a result of status "error" that carries a message; until then it
\* is at a statement of the code, and never out of it with an exception: a
\* read that raised or was refused ends the run with an error result.
C11_EndsDoneOrFailed ==
    /\ Returned =>
          /\ "status" \in DOMAIN result
          /\ \/ result["status"] = "success"
             \/ /\ result["status"] = "error"
                /\ "message" \in DOMAIN result
                /\ NonEmpty(result["message"])
    /\ ~Returned =>
          /\ pc \in BeforeReturn
          /\ "status" \in DOMAIN result => result["status"] = "success"
    /\ (\E i \in 1..Len(calls) : calls[i].method = "GET" /\ calls[i].answer # "ok") =>
          Returned /\ result["status"] = "error"

\* C11: a run has returned an error result after the read of the metadata
\* raised in transport.
C11_Witness ==
    /\ Returned
    /\ Len(calls) = 1
    /\ calls[1].answer = "exception"
    /\ result["status"] = "error"

\* The keys of a result as the interface lists them.
ResultKeys == {"status", "issues_found", "approval_status", "merged", "message", "review_body"}

\* C12, as stated: every result returned, on the success path and on every
\* error path, carries the keys status, issues_found, approval_status, merged,
\* message and review_body.
C12_EveryResultHasAllKeys == Returned => ResultKeys \subseteq DOMAIN result

\* C12, amended: a result of status "success" carries the keys status,
\* issues_found, approval_status, merged, message and review_body, and
\* merge_message besides when a merge request was sent; a result of status
\* "error" carries status and message only.
C12_KeysByStatus ==
    Returned =>
        IF result["status"] = "success"
        THEN DOMAIN result =
                ResultKeys \cup (IF Len(MergeCalls) > 0 THEN {"merge_message"} ELSE {})
        ELSE DOMAIN result = {"status", "message"}

\* C12: a run has returned a success result with the review body, after a
\* merge request.
C12_Witness ==
    /\ Returned
    /\ result["status"] = "success"
    /\ Len(MergeCalls) = 1
    /\ NonEmpty(result["review_body"])
    /\ "merge_message" \in DOMAIN result

\* The files of a snapshot that have a patch.
WithPatch(changes) == SelectSeq(changes, LAMBDA c : c.patch # <<>>)

\* C13: a file whose patch is empty or absent is skipped without error: the
\* findings and the verdict of the run are those of the snapshot without its
\* patch-less files.
C13_PatchlessFilesSkipped ==
    (FetchSucceeded /\ PastScan) =>
        LET kept == WithPatch(pr_data["changes"])
        IN  /\ IssuesAsClaimed(kept, issues_found)
            /\ Returned =>
                  /\ result["status"] = "success"
                  /\ result["issues_found"] = issues_found
                  /\ HasVerdict("approved") <=> NoFlaggedLine(kept)
                  /\ HasVerdict("changes_requested") <=> ~NoFlaggedLine(kept)

\* C13: a run has returned the finding of the second file, after a first
\* file that came without patch.
C13_Witness ==
    /\ Returned
    /\ Len(files_raw) = 2
    /\ "patch" \notin DOMAIN files_raw[1]
    /\ Len(issues_found) = 1
    /\ issues_found[1] = <<"Found TODO/FIXME in ", "b.py", " at line with content: ",
                           "T", "O", "D", "O">>
    /\ HasVerdict("changes_requested")

\* C14: a run whose fetch succeeded submits its review, and when the
\* submission fails the result says so next to its usual keys, while the run
\* still returns status "success" with the outcome of the merge evaluation.
C14_ReviewFailureReported ==
    (Returned /\ FetchSucceeded) =>
        /\ Len(ReviewCalls) = 1
        /\ ReviewCalls[1].answer # "ok" =>
              /\ DOMAIN result \ (ResultKeys \cup {"merge_message"}) # {}
              /\ result["status"] = "success"
              /\ "merged" \in DOMAIN result

\* A response of the fetch lacks a field the snapshot needs: the metadata
\* have no title, no user or no head commit, or a file has no name.
LacksRequiredField ==
    \/ /\ DOMAIN pr_raw # {}
       /\ \/ "title" \notin DOMAIN pr_raw
          \/ "user" \notin DOMAIN pr_raw
          \/ "head" \notin DOMAIN pr_raw
          \/ "sha" \notin DOMAIN pr_raw["head"]
    \/ \E i \in 1..Len(files_raw) : "filename" \notin DOMAIN files_raw[i]

\* C15: when a response of the fetch lacks a required field, the run returns
\* an error result at once: nothing is scanned, no snapshot is kept, and no
\* review request or merge request is sent.
C15_MissingFieldAborts ==
    (PastFetch /\ LacksRequiredField) =>
        /\ pc = "done"
        /\ result["status"] = "error"
        /\ NonEmpty(result["message"])
        /\ DOMAIN pr_data = {}
        /\ issues_found = <<>>
        /\ review_body = <<>>
        /\ Len(ReviewCalls) = 0
        /\ Len(MergeCalls) = 0

\* C15: a run has returned an error result after both reads answered, the
\* metadata without head commit.
C15_Witness ==
    /\ Returned
    /\ Len(calls) = 2
    /\ calls[2].answer = "ok"
    /\ "head" \notin DOMAIN pr_raw
    /\ Len(files_raw) > 0
    /\ result["status"] = "error"

\* C16: after a merge request that succeeded, the result holds the commit id
\* of the answer of the merge endpoint, under commit_sha or sha.
C16_MergeCommitRecorded ==
    (/\ Returned
     /\ Len(MergeCalls) = 1
     /\ MergeSucceeded(MergeCalls[1])
     /\ "sha" \in DOMAIN MergeCalls[1].answer.body.parsed) =>
        \E k \in {"commit_sha", "sha"} \cap DOMAIN result :
            result[k] = MergeCalls[1].answer.body.parsed["sha"]

\* The request did not succeed.
CallFailed(c) == IF c.method = "GET" THEN c.answer # "ok" ELSE MergeFailed(c)

\* C17: a run sends each of the metadata read, the file-list read and the
\* merge request at most once; no request follows a request that failed; and
\* the file-list read is sent only right after a metadata read that succeeded.
C17_NoRetry ==
    /\ \A e \in {"pulls/N", "pulls/N/files", "pulls/N/merge"} :
          Len(SelectSeq(calls, LAMBDA c : c.endpoint = e)) <= 1
    /\ \A i \in 1..Len(calls) : CallFailed(calls[i]) => i = Len(calls)
    /\ \A i \in 1..Len(calls) :
          calls[i].endpoint = "pulls/N/files" =>
              /\ i = 2
              /\ calls[1].endpoint = "pulls/N"
              /\ calls[1].answer = "ok"
    /\ (Returned /\ Len(calls) > 0 /\ CallFailed(calls[Len(calls)])) =>
          IF calls[Len(calls)].method = "GET"
          THEN result["status"] = "error"
          ELSE result["merged"] = FALSE

\* C17: a run has returned after three requests, the last of which, the
\* merge request, raised in transport.
C17_Witness ==
    /\ Returned
    /\ Len(calls) = 3
    /\ calls[3].endpoint = "pulls/N/merge"
    /\ calls[3].answer.kind = "exception"

\* The run has its result complete, or has returned it.
AtReturn == pc \in {"return", "done"}

\* C19: merged = true is in the result only of a run with status "success",
\* verdict approved, no finding, auto_merge set, the mergeable flag true, and
\* exactly one merge request, which the endpoint answered with success; and a
\* run sends a merge request exactly when its verdict is approved, auto_merge
\* is set and the mergeable flag is true.
C19_MergedOnlyAfterApprovedMerge ==
    /\ ("merged" \in DOMAIN result /\ result["merged"] = TRUE) =>
          /\ result["status"] = "success"
          /\ result["approval_status"] = "approved"
          /\ result["issues_found"] = <<>>
          /\ issues_found = <<>>
          /\ args.auto_merge
          /\ Get(pr_raw, "mergeable", PyNone) = PyTrue
          /\ Len(MergeCalls) = 1
          /\ MergeSucceeded(MergeCalls[1])
    /\ Len(MergeCalls) <= 1
    /\ Len(MergeCalls) = 1 =>
          /\ HasVerdict("approved")
          /\ args.auto_merge
          /\ Get(pr_raw, "mergeable", PyNone) = PyTrue
    /\ (/\ AtReturn
        /\ HasVerdict("approved")
        /\ args.auto_merge
        /\ Get(pr_raw, "mergeable", PyNone) = PyTrue) => Len(MergeCalls) = 1

\* C19: a run has returned merged = true after a merge request answered 200
\* with an empty JSON object.
C19_Witness ==
    /\ Returned
    /\ result["status"] = "success"
    /\ result["merged"] = TRUE
    /\ Len(MergeCalls) = 1
    /\ MergeCalls[1].answer.body = [parsed |-> EmptyDict]
    /\ result["message"] = <<"PR approved and merged: ", "Pull Request successfully merged">>

\* C20: a run that returns status "error" has sent no merge request: a run
\* that sent one returns status "success", whatever the merge request did.
C20_ErrorResultMeansNoMerge ==
    /\ (Returned /\ result["status"] = "error") => Len(MergeCalls) = 0
    /\ (AtReturn /\ Len(MergeCalls) > 0) =>
          /\ result["status"] = "success"
          /\ "merged" \in DOMAIN result
          /\ "merge_message" \in DOMAIN result
    /\ Len(MergeCalls) > 0 => AtReturn

\* C20: a run has returned status "success" after its merge request was
\* answered with a body that is not JSON.
C20_Witness ==
    /\ Returned
    /\ Len(MergeCalls) = 1
    /\ MergeCalls[1].answer.kind = "answer"
    /\ "parsed" \notin DOMAIN MergeCalls[1].answer.body
    /\ result["status"] = "success"
    /\ result["merged"] = FALSE

-----------------------------------------------------------------------------
(* Two runs.                                                               *)

\* The result of a run that is alone, from its arguments and from what the
\* remote end answered to its requests: the steps of the run, one after the
\* other. Alone the run sends a merge request when it has approved, auto_merge
\* is set and the pull request is mergeable: without the answer to that
\* request there is no result.
ResultAlone(a, pr_json, files_json, cs) ==
    IF \E i \in 1..Len(cs) : cs[i].method = "GET" /\ cs[i].answer # "ok"
    THEN FetchErrorResult
    ELSE LET info == BuildPrInfo(pr_json, files_json)
         IN  IF info = NoneDict
             THEN FetchErrorResult
             ELSE LET issues == ScanChanges(info.changes, <<>>)
                      approved == [status |-> "success", issues_found |-> issues,
                                   approval_status |-> "approved"]
                  IN  IF issues # <<>>
                      THEN [status |-> "success", issues_found |-> issues,
                            approval_status |-> "changes_requested", merged |-> FALSE,
                            message |-> <<"Changes requested, PR not approved">>,
                            review_body |-> BodyHeader \o BodyIssuesIntro \o Bullets(issues)]
                      ELSE Put(IF ~a.auto_merge
                               THEN Put(Put(approved, "merged", FALSE), "message",
                                        <<"PR approved, but automatic merge is disabled">>)
                               ELSE IF info.mergeable # PyTrue
                               THEN Put(Put(approved, "merged", FALSE), "message",
                                        <<"PR approved but not mergeable. Check for conflicts.">>)
                               ELSE IF Len(cs) < 3
                               THEN NoneDict
                               ELSE WithMergeResult(approved, MergeReturn(cs[3].answer)),
                               "review_body", BodyHeader \o BodyNoIssues)

\* The run with the locals f has returned what it returns when it is alone,
\* and has sent a merge request only if that result says so.
AsAlone(f) ==
    f.pc = "done" =>
        LET alone == ResultAlone(f.args, f.pr_raw, f.files_raw, f.calls)
        IN  /\ f.result = alone
            /\ (\E i \in 1..Len(f.calls) : f.calls[i].endpoint = "pulls/N/merge") <=>
                  "merge_message" \in DOMAIN alone

\* C18: of two runs whose steps interleave in any order, each returns the
\* result (findings, verdict, merge outcome, message) that it returns when it
\* runs alone with the same arguments and the same answers of the remote end;
\* and the token is at every moment the one read when the process started,
\* and is the one sent with every request.
C18_RunsDoNotInterfere ==
    /\ AsAlone(Locals)
    /\ AsAlone(suspended)
    /\ GITHUB_TOKEN = EnvToken
    /\ \A i \in 1..Len(calls) : calls[i].authorization = <<"token ", EnvToken>>
    /\ \A i \in 1..Len(suspended.calls) :
          suspended.calls[i].authorization = <<"token ", EnvToken>>

\* C18: both runs have returned, one with a finding and changes requested
\* for pull request 12, the other with pull request 7 merged.
C18_Witness ==
    /\ pc = "done"
    /\ suspended.pc = "done"
    /\ args.pr_number = 12
    /\ suspended.args.pr_number = 7
    /\ Len(issues_found) = 1
    /\ result["status"] = "success"
    /\ result["approval_status"] = "changes_requested"
    /\ suspended.result["status"] = "success"
    /\ suspended.result["merged"] = TRUE
    /\ suspended.issues_found = <<>>

-----------------------------------------------------------------------------
(* The method of the merge.                                                *)

\* The methods the merge request can name.
KnownMethods == {"merge", "squash", "rebase"}

\* C21: a merge request names the requested merge_method exactly when it is
\* merge, squash or rebase; with any other merge_method the run is not
\* refused: it proceeds as with a known one, and on an approved, mergeable
\* pull request with auto_merge set it sends its merge request without the
\* method field, so that the pull request can be merged by a method that was
\* not the requested one.
C21_UnknownMethodIsOmitted ==
    /\ \A i \in 1..Len(MergeCalls) :
          LET data == MergeCalls[i].data
          IN  IF args.merge_method \in KnownMethods
              THEN /\ "merge_method" \in DOMAIN data
                   /\ data["merge_method"] = args.merge_method
              ELSE /\ "merge_method" \notin DOMAIN data
                   /\ {"commit_title", "commit_message"} \subseteq DOMAIN data
    /\ (Returned /\ FetchSucceeded /\ args.merge_method \notin KnownMethods) =>
          /\ result["status"] = "success"
          /\ (/\ HasVerdict("approved")
              /\ args.auto_merge
              /\ Get(pr_raw, "mergeable", PyNone) = PyTrue) =>
                /\ Len(MergeCalls) = 1
                /\ MergeSucceeded(MergeCalls[1]) => result["merged"] = TRUE

\* C21: a run asked for the method fast-forward has merged, by a request
\* that names no method.
C21_Witness ==
    /\ Returned
    /\ args.merge_method = "fast-forward"
    /\ Len(MergeCalls) = 1
    /\ "merge_method" \notin DOMAIN MergeCalls[1].data
    /\ MergeSucceeded(MergeCalls[1])
    /\ result["status"] = "success"
    /\ result["merged"] = TRUE

====
